---- MODULE Spec2Model ----
(***************************************************************************)
(* Model of lib/models/model.py: Model.forward, Model.get_camera_trans and *)
(* Model.get_coord, the geometric pipeline that turns the regression       *)
(* head's raw outputs into a camera translation, a body mesh, regressed    *)
(* joints, their 2D projection and root-relative coordinates.              *)
(*                                                                         *)
(* Real numbers are exact fractions <<n, d>>.  d = 0 stands for the        *)
(* non-finite results of a floating point division: <<1,0>> and <<-1,0>>   *)
(* are the infinities and <<0,0>> is NaN.  torch.sigmoid is the one place  *)
(* where rounding is modelled, because a float has finitely many values    *)
(* between 0 and 1: the result is rounded to the nearest multiple of       *)
(* 2^-MantBits (float32 has 24 such bits).                                 *)
(***************************************************************************)
EXTENDS Integers, Sequences, FiniteSets, TLC

\* ---------------------------------------------------------------- bounds
BatchSize == 2
NumVerts == 2
MaxS == 5
MantBits == 4

NumJoints == 2
Batch == 1..BatchSize
Scale == 2^MantBits

\* ------------------------------------------------- tensor element arithmetic
Abs(x) == IF x < 0 THEN -x ELSE x

Sign(x) == IF x < 0 THEN -1 ELSE IF x > 0 THEN 1 ELSE 0

RECURSIVE GCD(_, _)
GCD(a, b) == IF b = 0 THEN a ELSE GCD(b, a % b)

\* the fraction n/d in lowest terms with a positive denominator; x/0 is an
\* infinity for x # 0 and NaN for x = 0
Rat(n, d) ==
    IF d = 0 THEN <<Sign(n), 0>>
    ELSE LET g == GCD(Abs(n), Abs(d))
         IN  <<Sign(d) * (n \div g), Abs(d) \div g>>

RInt(i) == <<i, 1>>

\* the sum; an infinity absorbs a finite term, opposite infinities give NaN
RAdd(a, b) ==
    IF a[2] = 0 /\ b[2] = 0 THEN (IF a[1] = b[1] THEN a ELSE <<0, 0>>)
    ELSE IF a[2] = 0 THEN a
    ELSE IF b[2] = 0 THEN b
    ELSE LET g == GCD(a[2], b[2])
         IN  Rat(a[1] * (b[2] \div g) + b[1] * (a[2] \div g), (a[2] \div g) * b[2])

RSub(a, b) == RAdd(a, <<-b[1], b[2]>>)

\* the product; infinity times zero is NaN
RMul(a, b) ==
    IF a[2] = 0 \/ b[2] = 0 THEN <<Sign(a[1]) * Sign(b[1]), 0>>
    ELSE IF a[1] = 0 \/ b[1] = 0 THEN <<0, 1>>
    ELSE LET g1 == GCD(Abs(a[1]), b[2])
             g2 == GCD(Abs(b[1]), a[2])
         IN  <<(a[1] \div g1) * (b[1] \div g2), (a[2] \div g2) * (b[2] \div g1)>>

\* the quotient; x/0 is an infinity for x # 0 and NaN for x = 0
RDiv(a, b) == RMul(a, Rat(b[2], b[1]))

IsFinite(a) == a[2] # 0

RLess(a, b) == a[1] * b[2] < b[1] * a[2]

Zero == RInt(0)

\* the stabiliser 1e-4 of the perspective division
Eps == <<1, 10000>>

\* a 3-vector minus a 3-vector
VSub(p, q) == <<RSub(p[1], q[1]), RSub(p[2], q[2]), RSub(p[3], q[3])>>

\* ------------------------------------------------------------- torch.sigmoid
RECURSIVE Pow(_, _)
Pow(b, e) == IF e = 0 THEN 1 ELSE b * Pow(b, e - 1)

\* e is taken as 19/7; Round(num, den) is num/den rounded to the nearest integer
Round(num, den) == (2 * num + den) \div (2 * den)

\* sigmoid(s) = 1 / (1 + e^-s), rounded to the nearest multiple of 1/Scale
\* for a whole number x = <<s, 1>>, as the raw depth controls of SampleSet are
Sigmoid(x) ==
    LET s == x[1]
        a == Pow(19, Abs(s))
        b == Pow(7, Abs(s))
        small == Round(Scale * b, a + b)
    IN  IF s >= 0 THEN Rat(Scale - small, Scale) ELSE Rat(small, Scale)

\* ---------------------------------------------------------------- math.sqrt
RECURSIVE ISqrtFrom(_, _)
ISqrtFrom(n, r) == IF (r + 1) * (r + 1) > n THEN r ELSE ISqrtFrom(n, r + 1)

ISqrt(n) == ISqrtFrom(n, 0)

\* the configurations of CfgSet have a radicand that is a square of a fraction
RSqrt(a) == Rat(ISqrt(a[1]), ISqrt(a[2]))

\* ------------------------------------------------------------------- state
VARIABLES
    cfg,              \* core.config.cfg: CAMERA.focal, CAMERA.princpt,
                      \* CAMERA.camera_3d_size, MODEL.input_img_shape
    joint_regressor,  \* human_models.smpl.joint_regressor, joints x vertices
    root_joint_idx,   \* human_models.smpl.root_joint_idx
    smpl_layer,       \* self.smpl_layer: the template vertices of the body model
    initial,          \* the four above as they were when the process started
    pc,               \* position of the caller / of forward
    err,              \* the exception a call was left with, "" for none
    work,             \* the numeric stages the current call has run
    head_out,         \* forward: what self.head returned, (pose, shape, cam)
    smpl_pose,        \* forward: the axis-angle pose
    cam_trans,        \* forward: the camera translation
    output,           \* get_coord: output.vertices of the body model
    mesh_cam,         \* get_coord
    joint_cam,        \* get_coord
    joint_proj,       \* get_coord
    result,           \* what forward returned
    prev              \* the caller's record of an earlier call: its head output
                      \* and what forward returned for it, <<>> for none

persistent == <<cfg, joint_regressor, root_joint_idx, smpl_layer>>

locals == <<head_out, smpl_pose, cam_trans, output, mesh_cam, joint_cam, joint_proj>>

vars == <<cfg, joint_regressor, root_joint_idx, smpl_layer, initial, pc, err, work,
          head_out, smpl_pose, cam_trans, output, mesh_cam, joint_cam, joint_proj,
          result, prev>>

\* ------------------------------------------------------------ configurations
\* input_img_shape (0, 1000) is the zero resolution of a broken configuration
CfgSet ==
    { [focal |-> <<1000, 1000>>, princpt |-> <<256, 256>>, camera_3d_size |-> 2,
       input_img_shape |-> <<1000, 1000>>],
      [focal |-> <<1000, 250>>, princpt |-> <<256, 128>>, camera_3d_size |-> 4,
       input_img_shape |-> <<500, 500>>],
      [focal |-> <<1000, 1000>>, princpt |-> <<256, 256>>, camera_3d_size |-> 2,
       input_img_shape |-> <<0, 1000>>] }

\* a regressor whose every row picks one vertex, and one whose first row
\* averages the first two vertices
RegressorSet ==
    { [j \in 1..NumJoints |->
          [v \in 1..NumVerts |-> IF v = ((j - 1) % NumVerts) + 1 THEN RInt(1) ELSE Zero]],
      [j \in 1..NumJoints |->
          [v \in 1..NumVerts |->
              IF j = 1 THEN (IF v <= 2 THEN <<1, 2>> ELSE Zero)
              ELSE IF v = ((j - 1) % NumVerts) + 1 THEN RInt(1) ELSE Zero]] }

\* template vertex v of the neutral body: vertex 1 at the origin
TemplateSet == { [v \in 1..NumVerts |-> <<RInt(v - 1), RInt(2 * (v - 1)), RInt(v - 1)>>] }

\* ------------------------------------------------ outputs of the head network
\* per sample: the 6D rotations of the root and of one body joint, the shape
\* coefficient and the raw camera parameters (x offset, y offset, depth control)
DepthSweep ==
    { [pose |-> <<"I6", "I6">>, shape |-> RInt(5), cam |-> <<Zero, Zero, RInt(s)>>] :
        s \in (-MaxS)..MaxS }

Special ==
    { [pose |-> <<"Rz6", "I6">>, shape |-> RInt(-1), cam |-> <<RInt(1), RInt(2), Zero>>],
      [pose |-> <<"I6", "I6">>, shape |-> RInt(-1), cam |-> <<Zero, Zero, Zero>>],
      [pose |-> <<"I6", "I6">>, shape |-> <<-10001, 10000>>, cam |-> <<Zero, Zero, Zero>>] }

SampleSet == DepthSweep \cup Special

\* the samples of the calls that are repeated
RepeatSet ==
    { [pose |-> <<"Rz6", "I6">>, shape |-> RInt(-1), cam |-> <<RInt(1), RInt(2), Zero>>],
      [pose |-> <<"I6", "I6">>, shape |-> RInt(5), cam |-> <<Zero, Zero, RInt(MaxS)>>] }

\* a raw camera row with `cols` columns: the three parameters cut or padded
CamRow(cam, cols) == [c \in 1..cols |-> IF c <= 3 THEN cam[c] ELSE Zero]

\* the head's three tensors for a batch of samples
HeadOut(samples, cols) ==
    [pose  |-> [i \in Batch |-> samples[i].pose],
     shape |-> [i \in Batch |-> samples[i].shape],
     cam   |-> [i \in Batch |-> CamRow(samples[i].cam, cols)]]

Unset == <<>>

\* ------------------------------------------------------ rot6d_to_axis_angle
\* the identity rotation has the zero axis-angle vector; Rz6 is a quarter turn
\* about the z axis
AxisAngleOf(rot6d) == IF rot6d = "I6" THEN "zero" ELSE "z90"

\* smpl_pose.reshape(-1,6), converted row by row, .reshape(batch_size,-1)
Rot6dToAxisAngle(pose) ==
    LET perSample == Len(pose[1])
        flat == [n \in 1..(Len(pose) * perSample) |->
                    pose[((n - 1) \div perSample) + 1][((n - 1) % perSample) + 1]]
        conv == [n \in 1..Len(flat) |-> AxisAngleOf(flat[n])]
    IN  [i \in 1..Len(pose) |-> [j \in 1..perSample |-> conv[(i - 1) * perSample + j]]]

\* ----------------------------------------------------------- get_camera_trans
\* the division by the image area raises ZeroDivisionError when it is zero
KDefined(c) == c.input_img_shape[1] * c.input_img_shape[2] # 0

KValue(c) ==
    RSqrt(Rat(c.focal[1] * c.focal[2] * c.camera_3d_size * c.camera_3d_size,
              c.input_img_shape[1] * c.input_img_shape[2]))

\* t_xy = cam_param[:,:2]; t_z = k_value * sigmoid(cam_param[:,2])
CameraTrans(cam_param, c) ==
    [i \in 1..Len(cam_param) |->
        <<cam_param[i][1], cam_param[i][2], RMul(KValue(c), Sigmoid(cam_param[i][3]))>>]

\* ------------------------------------------------------------ the body model
\* the global orientation turns the template, the shape coefficient moves it
\* along the depth axis; every sample is evaluated on its own
Rotate(aa, p) == IF aa = "z90" THEN <<RSub(Zero, p[2]), p[1], p[3]>> ELSE p

BodyModel(layer, global_orient, body_pose, betas) ==
    [v \in 1..NumVerts |->
        LET p == Rotate(global_orient, layer[v])
        IN  <<p[1], p[2], RAdd(p[3], betas)>>]

SmplLayer(layer, global_orient, body_pose, betas) ==
    [i \in 1..Len(betas) |-> BodyModel(layer, global_orient[i], body_pose[i], betas[i])]

\* ------------------------------------------------------------------ get_coord
RECURSIVE DotColumn(_, _, _, _)
\* sum over the first n vertices of row[v] * mesh[v][axis]
DotColumn(row, mesh, axis, n) ==
    IF n = 0 THEN Zero
    ELSE RAdd(DotColumn(row, mesh, axis, n - 1), RMul(row[n], mesh[n][axis]))

\* torch.bmm(joint_regressor[None,:,:].repeat(batch_size,1,1), mesh_cam)
Regress(regressor, mesh) ==
    [i \in 1..Len(mesh) |->
        [j \in 1..Len(regressor) |->
            <<DotColumn(regressor[j], mesh[i], 1, NumVerts),
              DotColumn(regressor[j], mesh[i], 2, NumVerts),
              DotColumn(regressor[j], mesh[i], 3, NumVerts)>>]]

\* the divisor without its stabiliser
DepthNoEps(z, tz) == RAdd(z, tz)

\* the divisor joint_cam[:,:,2] + cam_trans[:,None,2] + 1e-4
Depth(z, tz) == RAdd(RAdd(z, tz), Eps)

\* the perspective division of the untranslated coordinate
PinholeNoTrans(a, t, depth, focal, princpt) ==
    RAdd(RMul(RDiv(a, depth), RInt(focal)), RInt(princpt))

\* (a + t) / depth * focal + princpt
Pinhole(a, t, depth, focal, princpt) ==
    RAdd(RMul(RDiv(RAdd(a, t), depth), RInt(focal)), RInt(princpt))

\* x, y and torch.stack((x,y),2)
Project(joints, trans, c) ==
    [i \in 1..Len(joints) |->
        [j \in 1..Len(joints[i]) |->
            LET p == joints[i][j]
                t == trans[i]
                depth == Depth(p[3], t[3])
            IN  <<Pinhole(p[1], t[1], depth, c.focal[1], c.princpt[1]),
                  Pinhole(p[2], t[2], depth, c.focal[2], c.princpt[2])>>]]

\* the root of the first sample taken for every sample
RootCamFirstSample(joints, root) == [i \in 1..Len(joints) |-> joints[1][root]]

\* root_cam = joint_cam[:,root_joint_idx,None,:]
RootCam(joints, root) == [i \in 1..Len(joints) |-> joints[i][root]]

\* the root added instead of subtracted
SubRootAdd(points, root_cam) ==
    [i \in 1..Len(points) |->
        [n \in 1..Len(points[i]) |->
            <<RAdd(points[i][n][1], root_cam[i][1]), RAdd(points[i][n][2], root_cam[i][2]),
              RAdd(points[i][n][3], root_cam[i][3])>>]]

\* points - root_cam, the root of a sample broadcast over its points
SubRoot(points, root_cam) ==
    [i \in 1..Len(points) |->
        LET r == root_cam[i]
        IN  [n \in 1..Len(points[i]) |-> LET q == points[i][n] IN VSub(q, r)]]

\* the mesh re-centred on its own vertex at the root index
NormalizeMeshRoot(joints, mesh, root) ==
    [joint_cam |-> SubRoot(joints, RootCam(joints, root)),
     mesh_cam  |-> SubRoot(mesh, [i \in 1..Len(mesh) |-> mesh[i][((root - 1) % NumVerts) + 1]])]

\* the root-relative joints and mesh
Normalize(joints, mesh, root) ==
    [joint_cam |-> SubRoot(joints, RootCam(joints, root)),
     mesh_cam  |-> SubRoot(mesh, RootCam(joints, root))]

\* get_coord as a whole, for the persistent state p = <<cfg, joint_regressor,
\* root_joint_idx, smpl_layer>>
GetCoord(p, smpl_root_pose, body_pose, smpl_shape, trans) ==
    LET vertices == SmplLayer(p[4], smpl_root_pose, body_pose, smpl_shape)
        joints == Regress(p[2], vertices)
        n == Normalize(joints, vertices, p[3])
    IN  [joint_proj |-> Project(joints, trans, p[1]),
         joint_cam |-> n.joint_cam,
         mesh_cam |-> n.mesh_cam]

\* forward from the head's output on, when no exception is raised
ForwardResult(p, ho) ==
    LET pose == Rot6dToAxisAngle(ho.pose)
        trans == CameraTrans(ho.cam, p[1])
        g == GetCoord(p, [i \in 1..Len(pose) |-> pose[i][1]],
                      [i \in 1..Len(pose) |-> Tail(pose[i])], ho.shape, trans)
    IN  [mesh_cam |-> g.mesh_cam, joint_cam |-> g.joint_cam,
         joint_proj |-> g.joint_proj, smpl_pose |-> pose, smpl_shape |-> ho.shape]

\* -------------------------------------------------------------------- actions
Init ==
    /\ cfg \in CfgSet
    /\ joint_regressor \in RegressorSet
    /\ root_joint_idx \in 1..NumJoints
    /\ smpl_layer \in TemplateSet
    /\ initial = <<cfg, joint_regressor, root_joint_idx, smpl_layer>>
    /\ pc = "unconstructed"
    /\ err = ""
    /\ work = {}
    /\ head_out = Unset
    /\ smpl_pose = Unset
    /\ cam_trans = Unset
    /\ output = Unset
    /\ mesh_cam = Unset
    /\ joint_cam = Unset
    /\ joint_proj = Unset
    /\ result = Unset
    /\ prev = Unset

\* get_model and Model.__init__: backbone, head and the copy of the body model
\* are stored; the camera configuration is not read
ModelInit ==
    /\ pc = "unconstructed"
    /\ pc' = "idle"
    /\ UNCHANGED <<persistent, initial, prev, err, work, locals, result>>

\* the locals of a call that is starting or over
Cleared ==
    /\ err' = ""
    /\ smpl_pose' = Unset
    /\ cam_trans' = Unset
    /\ output' = Unset
    /\ mesh_cam' = Unset
    /\ joint_cam' = Unset
    /\ joint_proj' = Unset
    /\ result' = Unset

\* a batch of samples of Special, one of which may be any sample
Batches ==
    { [n \in Batch |-> IF n = i THEN s ELSE b[n]] :
        b \in [Batch -> Special], i \in Batch, s \in SampleSet }

\* forward, up to the head: a batch goes through the backbone and the head,
\* whose raw camera output has 3 columns, or 2 or 4 when it is mis-shaped
Forward ==
    /\ pc = "idle"
    /\ \/ \E samples \in Batches : head_out' = HeadOut(samples, 3)
       \/ \E samples \in [Batch -> Special], cols \in {2, 4} :
              head_out' = HeadOut(samples, cols)
    /\ pc' = "rot6d"
    /\ work' = {"backbone", "head"}
    /\ Cleared
    /\ UNCHANGED <<persistent, initial, prev>>

\* the caller is done with what the call returned or raised
Release ==
    /\ pc \in {"returned", "raised"}
    /\ pc' = "idle"
    /\ head_out' = Unset
    /\ work' = {}
    /\ Cleared
    /\ UNCHANGED <<persistent, initial, prev>>

\* forward: smpl_pose = rot6d_to_axis_angle(...)
ForwardRot6d ==
    /\ pc = "rot6d"
    /\ smpl_pose' = Rot6dToAxisAngle(head_out.pose)
    /\ work' = work \cup {"rot6d"}
    /\ pc' = "get_camera_trans"
    /\ UNCHANGED <<persistent, initial, prev, err, head_out, cam_trans, output, mesh_cam,
                   joint_cam, joint_proj, result>>

\* get_camera_trans with the depth control read from the last column
\* (cam_param[:,-1]), which exists whatever the number of columns
GetCameraTransLastColumn ==
    /\ pc = "get_camera_trans"
    /\ IF ~KDefined(cfg)
       THEN /\ pc' = "raised"
            /\ err' = "ZeroDivisionError"
            /\ work' = work \cup {"sigmoid"}
            /\ UNCHANGED cam_trans
       ELSE /\ cam_trans' =
                  [i \in Batch |->
                      <<head_out.cam[i][1], head_out.cam[i][2],
                        RMul(KValue(cfg), Sigmoid(head_out.cam[i][Len(head_out.cam[i])]))>>]
            /\ work' = work \cup {"sigmoid", "get_camera_trans"}
            /\ pc' = "smpl_layer"
            /\ UNCHANGED err
    /\ UNCHANGED <<persistent, initial, prev, head_out, smpl_pose, output, mesh_cam,
                   joint_cam, joint_proj, result>>

\* get_camera_trans with a division that yields infinity on a zero image area
\* instead of raising
GetCameraTransNoRaise ==
    /\ pc = "get_camera_trans"
    /\ IF Len(head_out.cam[1]) < 3
       THEN /\ pc' = "raised"
            /\ err' = "IndexError"
            /\ UNCHANGED <<cam_trans, work>>
       ELSE /\ cam_trans' = CameraTrans(head_out.cam, cfg)
            /\ work' = work \cup {"sigmoid", "get_camera_trans"}
            /\ pc' = "smpl_layer"
            /\ UNCHANGED err
    /\ UNCHANGED <<persistent, initial, prev, head_out, smpl_pose, output, mesh_cam,
                   joint_cam, joint_proj, result>>

\* get_camera_trans: cam_param[:,2] raises IndexError on fewer than 3 columns,
\* the computation of k_value raises ZeroDivisionError on a zero image area
GetCameraTrans ==
    /\ pc = "get_camera_trans"
    /\ IF Len(head_out.cam[1]) < 3
       THEN /\ pc' = "raised"
            /\ err' = "IndexError"
            /\ UNCHANGED <<cam_trans, work>>
       ELSE IF ~KDefined(cfg)
       THEN /\ pc' = "raised"
            /\ err' = "ZeroDivisionError"
            /\ work' = work \cup {"sigmoid"}
            /\ UNCHANGED cam_trans
       ELSE /\ cam_trans' = CameraTrans(head_out.cam, cfg)
            /\ work' = work \cup {"sigmoid", "get_camera_trans"}
            /\ pc' = "smpl_layer"
            /\ UNCHANGED err
    /\ UNCHANGED <<persistent, initial, prev, head_out, smpl_pose, output, mesh_cam,
                   joint_cam, joint_proj, result>>

\* get_coord: output = self.smpl_layer(...); mesh_cam = output.vertices
GetCoordSmpl ==
    /\ pc = "smpl_layer"
    /\ output' = SmplLayer(smpl_layer,
                           [i \in Batch |-> smpl_pose[i][1]],
                           [i \in Batch |-> Tail(smpl_pose[i])],
                           head_out.shape)
    /\ mesh_cam' = output'
    /\ work' = work \cup {"smpl_layer"}
    /\ pc' = "regress"
    /\ UNCHANGED <<persistent, initial, prev, err, head_out, smpl_pose, cam_trans,
                   joint_cam, joint_proj, result>>

\* the regression with the shared matrix halved in place
GetCoordRegressInPlace ==
    /\ pc = "regress"
    /\ joint_cam' = Regress(joint_regressor, mesh_cam)
    /\ joint_regressor' =
          [j \in 1..Len(joint_regressor) |->
              [v \in 1..Len(joint_regressor[j]) |-> RMul(joint_regressor[j][v], <<1, 2>>)]]
    /\ work' = work \cup {"regress"}
    /\ pc' = "project"
    /\ UNCHANGED <<cfg, root_joint_idx, smpl_layer, initial, prev, err, head_out, smpl_pose,
                   cam_trans, output, mesh_cam, joint_proj, result>>

\* get_coord: joint_cam = torch.bmm(joint_regressor, mesh_cam)
GetCoordRegress ==
    /\ pc = "regress"
    /\ joint_cam' = Regress(joint_regressor, mesh_cam)
    /\ work' = work \cup {"regress"}
    /\ pc' = "project"
    /\ UNCHANGED <<persistent, initial, prev, err, head_out, smpl_pose, cam_trans,
                   output, mesh_cam, joint_proj, result>>

\* the projection of the root-relative joints
GetCoordProjectRootRelative ==
    /\ pc = "project"
    /\ joint_proj' = Project(Normalize(joint_cam, mesh_cam, root_joint_idx).joint_cam,
                             cam_trans, cfg)
    /\ work' = work \cup {"project"}
    /\ pc' = "normalize"
    /\ UNCHANGED <<persistent, initial, prev, err, head_out, smpl_pose, cam_trans,
                   output, mesh_cam, joint_cam, result>>

\* get_coord: project 3D coordinates to 2D space
GetCoordProject ==
    /\ pc = "project"
    /\ joint_proj' = Project(joint_cam, cam_trans, cfg)
    /\ work' = work \cup {"project"}
    /\ pc' = "normalize"
    /\ UNCHANGED <<persistent, initial, prev, err, head_out, smpl_pose, cam_trans,
                   output, mesh_cam, joint_cam, result>>

\* get_coord: root-relative 3D coordinates, and the two returns
GetCoordNormalize ==
    /\ pc = "normalize"
    /\ LET n == Normalize(joint_cam, mesh_cam, root_joint_idx)
       IN  /\ joint_cam' = n.joint_cam
           /\ mesh_cam' = n.mesh_cam
           /\ result' = [mesh_cam |-> n.mesh_cam, joint_cam |-> n.joint_cam,
                         joint_proj |-> joint_proj, smpl_pose |-> smpl_pose,
                         smpl_shape |-> head_out.shape]
    /\ work' = work \cup {"normalize"}
    /\ pc' = "returned"
    /\ UNCHANGED <<persistent, initial, prev, err, head_out, smpl_pose, cam_trans,
                   output, joint_proj>>

Next ==
    \/ ModelInit
    \/ Forward
    \/ Release
    \/ ForwardRot6d
    \/ GetCameraTrans
    \/ GetCoordSmpl
    \/ GetCoordRegress
    \/ GetCoordProject
    \/ GetCoordNormalize

Spec == Init /\ [][Next]_vars

\* the caller keeps the head output and the result of a call that returned
Keep ==
    /\ pc = "returned"
    /\ prev' = <<head_out, result>>
    /\ pc' = "idle"
    /\ head_out' = Unset
    /\ work' = {}
    /\ Cleared
    /\ UNCHANGED <<persistent, initial>>

\* forward, called time and again on a few batches
ForwardAgain ==
    /\ pc = "idle"
    /\ \E samples \in [Batch -> RepeatSet] : head_out' = HeadOut(samples, 3)
    /\ pc' = "rot6d"
    /\ work' = {"backbone", "head"}
    /\ Cleared
    /\ UNCHANGED <<persistent, initial, prev>>

NextRepeat ==
    \/ ModelInit
    \/ ForwardAgain
    \/ Keep
    \/ Release
    \/ ForwardRot6d
    \/ GetCameraTrans
    \/ GetCoordSmpl
    \/ GetCoordRegress
    \/ GetCoordProject
    \/ GetCoordNormalize

SpecRepeat == Init /\ [][NextRepeat]_vars

\* ------------------------------------------------------------------ properties
Origin == <<Zero, Zero, Zero>>

\* the regressed joints before normalization, in absolute camera space
PreJoints == Regress(joint_regressor, output)

Projected == pc \in {"normalize", "returned"}

Joints == 1..NumJoints

\* C1: the 2D projection is the pinhole projection of the un-normalized joints
\* and cam_trans; it is computed before the normalization, which is the last
\* step of the call and leaves the projection as it was.
ProjectionBeforeNormalization ==
    /\ [](Projected => joint_proj = Project(PreJoints, cam_trans, cfg))
    /\ [](pc = "returned" => result.joint_proj = Project(PreJoints, cam_trans, cfg))
    /\ [](pc = "project" => joint_cam = PreJoints)
    /\ [][pc = "normalize" => joint_proj' = joint_proj /\ pc' = "returned"]_vars

\* a call has returned whose roots are off the origin and whose projection
\* differs from the projection of the root-relative joints
ProjectionWitness ==
    /\ pc = "returned"
    /\ \A i \in Batch : PreJoints[i][root_joint_idx] # Origin
    /\ result.joint_proj # Project(result.joint_cam, cam_trans, cfg)

\* C2: the returned root joint is the origin for every sample, and the returned
\* joints and mesh are the regressed joints and the body model's vertices minus
\* the regressed joint at the root index.
RootInvariant ==
    pc = "returned" =>
        \A i \in Batch :
            LET root == PreJoints[i][root_joint_idx]
            IN  /\ result.joint_cam[i][root_joint_idx] = Origin
                /\ \A j \in Joints :
                       LET p == PreJoints[i][j] IN result.joint_cam[i][j] = VSub(p, root)
                /\ \A v \in 1..NumVerts : result.mesh_cam[i][v] = VSub(output[i][v], root)

\* a call has returned in which the root joint of a sample was off the origin
\* and was none of that sample's mesh vertices
RootWitness ==
    /\ pc = "returned"
    /\ \E i \in Batch :
           /\ PreJoints[i][root_joint_idx] # Origin
           /\ \A v \in 1..NumVerts : output[i][v] # PreJoints[i][root_joint_idx]

\* C3: the depth of the camera translation lies strictly between 0 and k, and
\* the x and y offsets are the raw ones.
CameraBound ==
    cam_trans # Unset =>
        \A i \in Batch :
            /\ RLess(Zero, cam_trans[i][3])
            /\ RLess(cam_trans[i][3], KValue(cfg))
            /\ cam_trans[i][1] = head_out.cam[i][1]
            /\ cam_trans[i][2] = head_out.cam[i][2]

\* C4 as stated: a configuration that leaves k undefined is caught when the
\* model is constructed, so no model is ever constructed with it and no
\* forward call starts.
ConfigErrorAtConstruction ==
    ~KDefined(cfg) => pc = "unconstructed" \/ (pc = "raised" /\ work = {})

\* C4 amended: construction succeeds whatever the configuration; with an
\* undefined k every forward call raises ZeroDivisionError in get_camera_trans,
\* after backbone, head and rotation conversion, and no call gets past it.
ConfigErrorDeferred ==
    /\ [][pc = "unconstructed" => pc' = "idle"]_vars
    /\ [](~KDefined(cfg) =>
            /\ pc \notin {"smpl_layer", "regress", "project", "normalize", "returned"}
            /\ cam_trans = Unset)
    /\ [](err = "ZeroDivisionError" =>
            /\ ~KDefined(cfg)
            /\ pc = "raised"
            /\ {"backbone", "head", "rot6d"} \subseteq work)

\* a forward call on a constructed model has raised ZeroDivisionError
ConfigErrorWitness ==
    /\ ~KDefined(cfg)
    /\ pc = "raised"
    /\ err = "ZeroDivisionError"
    /\ "rot6d" \in work

\* C5: where joint depth plus camera depth is zero the projection is finite,
\* and where the joint depth is not negative the divisor is positive and the
\* projection is finite.
DepthSafety ==
    Projected =>
        \A i \in Batch : \A j \in Joints :
            LET p == PreJoints[i][j]
                z == p[3]
                tz == cam_trans[i][3]
                finite == IsFinite(joint_proj[i][j][1]) /\ IsFinite(joint_proj[i][j][2])
            IN  /\ RAdd(z, tz) = Zero => finite
                /\ ~RLess(z, Zero) => RLess(Zero, Depth(z, tz)) /\ finite

\* a joint has been projected whose depth and camera depth cancel, and another
\* one whose depth is not negative
DepthWitness ==
    /\ pc = "returned"
    /\ \E i \in Batch : \E j \in Joints : RAdd(PreJoints[i][j][3], cam_trans[i][3]) = Zero
    /\ \E i \in Batch : \E j \in Joints : ~RLess(PreJoints[i][j][3], Zero)

\* the head output of the batch that holds sample i alone
Alone(ho, i) == [pose |-> <<ho.pose[i]>>, shape |-> <<ho.shape[i]>>, cam |-> <<ho.cam[i]>>]

\* C6: the outputs of a sample are what the sample yields in a batch of its
\* own, so that two batches that agree on the sample agree on its outputs
\* whatever their other samples are.
BatchIndependence ==
    pc = "returned" =>
        \A i \in Batch :
            LET r == ForwardResult(persistent, Alone(head_out, i))
            IN  /\ CameraTrans(Alone(head_out, i).cam, cfg)[1] = cam_trans[i]
                /\ r.joint_proj[1] = result.joint_proj[i]
                /\ r.joint_cam[1] = result.joint_cam[i]
                /\ r.mesh_cam[1] = result.mesh_cam[i]

\* a batch has returned whose samples have different root joints and
\* different camera translations
BatchWitness ==
    /\ pc = "returned"
    /\ \E i \in Batch : \E j \in Batch :
           /\ PreJoints[i][root_joint_idx] # PreJoints[j][root_joint_idx]
           /\ cam_trans[i] # cam_trans[j]

MisShaped == head_out # Unset /\ Len(head_out.cam[1]) # 3

NormalizeIdempotent ==
    /\ pc = "normalize" =>
           LET n == Normalize(joint_cam, mesh_cam, root_joint_idx)
           IN  Normalize(n.joint_cam, n.mesh_cam, root_joint_idx) = n
    /\ pc = "returned" =>
           Normalize(result.joint_cam, result.mesh_cam, root_joint_idx) =
               [joint_cam |-> result.joint_cam, mesh_cam |-> result.mesh_cam]

\* a call has returned whose normalization moved every sample
IdempotentWitness ==
    /\ pc = "returned"
    /\ \A i \in Batch : PreJoints[i][root_joint_idx] # Origin
    /\ result.mesh_cam # output

\* the divisor of the projection of the point p under the translation t
Divisor(p, t) == RAdd(RAdd(p[3], t[3]), <<1, 10000>>)

\* the projection formula, multiplied out, for the point p, the translation t
\* and the projection q: (q - principal) * divisor = (p + t) * focal
OnFormula(p, t, q) ==
    LET d == Divisor(p, t)
    IN  d # Zero =>
            /\ RMul(RSub(q[1], RInt(cfg.princpt[1])), d) =
                   RMul(RAdd(p[1], t[1]), RInt(cfg.focal[1]))
            /\ RMul(RSub(q[2], RInt(cfg.princpt[2])), d) =
                   RMul(RAdd(p[2], t[2]), RInt(cfg.focal[2]))

OnAxis(p, t) == RAdd(p[1], t[1]) = Zero /\ RAdd(p[2], t[2]) = Zero

PrincipalPoint == <<RInt(cfg.princpt[1]), RInt(cfg.princpt[2])>>

\* C10 as stated: the projection follows the pinhole formula and every joint on
\* the camera axis after translation projects to the principal point.
OnAxisProjectsToPrincipal ==
    Projected =>
        \A i \in Batch : \A j \in Joints :
            LET p == PreJoints[i][j]
            IN  /\ OnFormula(p, cam_trans[i], joint_proj[i][j])
                /\ OnAxis(p, cam_trans[i]) => joint_proj[i][j] = PrincipalPoint

\* C10 amended: the projection follows the pinhole formula, and every joint on
\* the camera axis after translation projects to the principal point unless
\* the divisor Z_cam + t_z + 1e-4 is zero, where the projection is not a number.
OnAxisProjectsToPrincipalOffSingularity ==
    Projected =>
        \A i \in Batch : \A j \in Joints :
            LET p == PreJoints[i][j]
            IN  /\ OnFormula(p, cam_trans[i], joint_proj[i][j])
                /\ OnAxis(p, cam_trans[i]) =>
                       IF Divisor(p, cam_trans[i]) = Zero
                       THEN ~IsFinite(joint_proj[i][j][1]) /\ ~IsFinite(joint_proj[i][j][2])
                       ELSE joint_proj[i][j] = PrincipalPoint

\* the joint (0,0,5) has been projected with cam_trans (0,0,1), focal
\* (1000,1000) and principal point (256,256), next to a joint off the axis
OnAxisWitness ==
    /\ pc = "returned"
    /\ cfg.focal = <<1000, 1000>>
    /\ cfg.princpt = <<256, 256>>
    /\ \E i \in Batch : \E j \in Joints :
           /\ PreJoints[i][j] = <<Zero, Zero, RInt(5)>>
           /\ cam_trans[i] = <<Zero, Zero, RInt(1)>>
           /\ joint_proj[i][j] = <<RInt(256), RInt(256)>>
    /\ \E i \in Batch : \E j \in Joints : ~OnAxis(PreJoints[i][j], cam_trans[i])

====
